---- MODULE Spec2Model ----
(***************************************************************************)
(* Model of game_agent.py: CustomPlayer.minimax, CustomPlayer.alphabeta    *)
(* and CustomPlayer.get_move, run against a small isolation board.         *)
(*                                                                         *)
(* The board (isolation.Board) is an external collaborator of the agent.   *)
(* It is modelled as a one-row board of BoardSize cells on which a player  *)
(* steps to an adjacent blank cell; visited cells are blocked.  The agent  *)
(* ("self") is the active player of every root state handed to a search.   *)
(*                                                                         *)
(* Scores are floats in the program.  They are modelled as exact integers: *)
(* every score is multiplied by ScoreScale, a common multiple of all the   *)
(* denominators custom_score can produce, so order and equality of scores  *)
(* are those of the program.  float('inf') is PosInf, float('-inf') NegInf.*)
(***************************************************************************)
EXTENDS Integers, Sequences, FiniteSets, TLC

\* Number of cells of the one-row board.
BoardSize == 6

\* default of the search_depth parameter
DEFAULT_SEARCH_DEPTH == 3
\* default of the timeout parameter (self.TIMER_THRESHOLD), in milliseconds
TIMER_THRESHOLD == 10
\* the margin of get_move's while loop, in milliseconds
LOOP_MARGIN == 600

Self == "self"
Opp  == "opp"
Players == {Self, Opp}

Cells == {<<0, c>> : c \in 0..(BoardSize - 1)}
NO_MOVE == <<-1, -1>>

\* The deepest search the driver's depth counter distinguishes.  A game on
\* this board lasts at most BoardSize - 2 plies, so every search at a depth
\* of MaxDepth or more visits the same nodes and returns the same result.
MaxDepth == BoardSize - 1

Abs(x) == IF x < 0 THEN -x ELSE x
Max2(a, b) == IF a >= b THEN a ELSE b
Min2(a, b) == IF a <= b THEN a ELSE b

RECURSIVE Gcd(_, _)
Gcd(a, b) == IF b = 0 THEN a ELSE Gcd(b, a % b)
RECURSIVE LcmUpTo(_)
LcmUpTo(n) == IF n <= 1 THEN 1 ELSE LET l == LcmUpTo(n - 1) IN (l * n) \div Gcd(l, n)

\* custom_score divides by 1 + dist + len(blank) <= 2 * BoardSize.
ScoreScale == LcmUpTo(2 * BoardSize)
PosInf == ScoreScale * (2 * BoardSize)
NegInf == -PosInf

----------------------------------------------------------------------------
(* The board: isolation.Board as the agent uses it.                        *)

\* The attributes a board offers to the agent.
BoardAttributes == {"get_legal_moves", "get_opponent", "forecast_move", "is_winner",
                    "is_loser", "get_player_location", "get_blank_spaces",
                    "active_player"}

Directions == << <<-1, -1>>, <<-1, 0>>, <<-1, 1>>, <<0, -1>>,
                 <<0, 1>>, <<1, -1>>, <<1, 0>>, <<1, 1>> >>

get_opponent(player) == IF player = Self THEN Opp ELSE Self

get_player_location(g, player) == g.loc[player]

get_blank_spaces(g) == g.blank

get_legal_moves(g, player) ==
    LET at == g.loc[player]
        cand == [i \in 1..Len(Directions) |->
                    <<at[1] + Directions[i][1], at[2] + Directions[i][2]>>]
    IN SelectSeq(cand, LAMBDA m : m \in g.blank)

forecast_move(g, m) ==
    [loc    |-> [g.loc EXCEPT ![g.active] = m],
     blank  |-> g.blank \ {m},
     active |-> get_opponent(g.active)]

is_loser(g, player) == player = g.active /\ get_legal_moves(g, g.active) = << >>

is_winner(g, player) == player # g.active /\ get_legal_moves(g, g.active) = << >>

----------------------------------------------------------------------------
(* Evaluation functions (the score_fn parameter).                         *)

manhattan_distance(move1, move2) == Abs(move1[1] - move2[1]) + Abs(move1[2] - move2[2])

\* Evaluation Function III: (own - opp) / (1 + dist + len(blank)), as a float.
custom_score(g, player) ==
    LET player1_moves == get_legal_moves(g, player)
        player2_moves == get_legal_moves(g, get_opponent(player))
        dist == manhattan_distance(get_player_location(g, player),
                                   get_player_location(g, get_opponent(player)))
        blank == get_blank_spaces(g)
    IN ((Len(player1_moves) - Len(player2_moves)) * ScoreScale)
           \div (1 + dist + Cardinality(blank))

\* Other evaluation functions a player can be constructed with.
improved_score(g, player) ==
    (Len(get_legal_moves(g, player)) - Len(get_legal_moves(g, get_opponent(player))))
        * ScoreScale

distance_score(g, player) ==
    manhattan_distance(get_player_location(g, player),
                       get_player_location(g, get_opponent(player))) * ScoreScale

ScoreFns == {"custom_score", "improved_score", "distance_score"}

ApplyScore(fn, g, player) ==
    CASE fn = "custom_score"    -> custom_score(g, player)
      [] fn = "improved_score"  -> improved_score(g, player)
      [] fn = "distance_score"  -> distance_score(g, player)

----------------------------------------------------------------------------
(* State.                                                                  *)

VARIABLES
    game,          \* the board handed to get_move / to the search under test
    legal_moves,   \* get_move's legal_moves argument
    score_fn,      \* self.score
    method,        \* self.method
    iterative,     \* self.iterative
    search_depth,  \* self.search_depth
    now,           \* what the latest self.time_left() call returned
    pc,            \* where get_move stands: "idle", "search", "loop", "done"
    d,             \* get_move's local d
    best,          \* get_move's locals best_score, best_move
    ncalls,        \* how many search calls get_move has made so far
    last,          \* the latest search call get_move made, and how it ended
    completed,     \* the latest search call of get_move that ran to completion
    outcome,       \* how get_move ended
    depth,         \* the depth argument of the searches under test
    maximizing,    \* the maximizing_player argument of the searches under test
    mm,            \* what minimax(game, depth, maximizing) did
    ab             \* what alphabeta(game, depth, -inf, inf, maximizing) did

config == <<game, legal_moves, score_fn, method, iterative, search_depth>>
driver == <<pc, d, best, ncalls, last, completed, outcome>>
probe  == <<depth, maximizing, mm, ab>>
vars   == <<config, now, driver, probe>>

\* self.score(g, player)
score(g, player) == ApplyScore(score_fn, g, player)

----------------------------------------------------------------------------
(* Search results.  A helper returns its value v together with what it did:*)
(* fc, the number of forecast_move calls made at or below the node, and    *)
(* tr, one record per node visited: the state, its ply, the value returned *)
(* for it and the number of forecast_move calls made on that state.        *)

Node(g, ply, v, n) == [g |-> g, ply |-> ply, v |-> v, fc |-> n]

Leaf(g, ply) ==
    LET v == score(g, Self)
    IN [v |-> v, fc |-> 0, tr |-> {Node(g, ply, v, 0)}]

\* The value a helper's loop has accumulated after i children.
Acc(v, fc, tr, n) == [v |-> v, fc |-> fc, tr |-> tr, n |-> n]

\* Closes a helper's loop: the node's own record joins the trace.
Close(g, ply, a) == [v |-> a.v, fc |-> a.fc, tr |-> a.tr \cup {Node(g, ply, a.v, a.n)}]

\* TerminalTest with the depth test off by one.
TerminalTest_late(n_game, n_depth, max_depth) ==
    n_depth > max_depth \/ is_winner(n_game, Self) \/ is_loser(n_game, Self)

\* if n_depth == max_depth or n_game.is_winner(self) == True or n_game.is_loser(self) == True
TerminalTest(n_game, n_depth, max_depth) ==
    n_depth = max_depth \/ is_winner(n_game, Self) \/ is_loser(n_game, Self)

----------------------------------------------------------------------------
(* CustomPlayer.minimax                                                    *)

RECURSIVE min_value(_, _, _, _, _)
RECURSIVE max_value(_, _, _, _, _)
RECURSIVE min_loop(_, _, _, _, _, _, _, _)
RECURSIVE max_loop(_, _, _, _, _, _, _, _)

\* best_score = min(best_score, r) after next_game = n_game.forecast_move(m)
min_step(a, r) == Acc(Min2(a.v, r.v), a.fc + 1 + r.fc, a.tr \cup r.tr, a.n + 1)

\* best_score = max(best_score, r) after next_game = n_game.forecast_move(m)
max_step(a, r) == Acc(Max2(a.v, r.v), a.fc + 1 + r.fc, a.tr \cup r.tr, a.n + 1)

\* for m in n_moves: best_score = min(best_score, max_value(...))
min_loop(g0, n_game, n_moves, i, n_depth, max_depth, maximizing_player, a) ==
    IF i > Len(n_moves) THEN a
    ELSE min_loop(g0, n_game, n_moves, i + 1, n_depth, max_depth, maximizing_player,
                  min_step(a, max_value(g0, forecast_move(n_game, n_moves[i]), n_depth,
                                        max_depth, maximizing_player)))

\* for m in n_moves: best_score = max(best_score, min_value(...))
max_loop(g0, n_game, n_moves, i, n_depth, max_depth, maximizing_player, a) ==
    IF i > Len(n_moves) THEN a
    ELSE max_loop(g0, n_game, n_moves, i + 1, n_depth, max_depth, maximizing_player,
                  max_step(a, min_value(g0, forecast_move(n_game, n_moves[i]), n_depth,
                                        max_depth, maximizing_player)))

min_value(g0, n_game, n_depth, max_depth, maximizing_player) ==
    IF TerminalTest(n_game, n_depth, max_depth)
    THEN Leaf(n_game, n_depth)
    ELSE LET n_moves == IF maximizing_player
                        THEN get_legal_moves(n_game, get_opponent(Self))
                        ELSE get_legal_moves(n_game, Self)
         IN Close(n_game, n_depth,
                  min_loop(g0, n_game, n_moves, 1, n_depth + 1, max_depth,
                           maximizing_player, Acc(PosInf, 0, {}, 0)))

max_value(g0, n_game, n_depth, max_depth, maximizing_player) ==
    IF TerminalTest(n_game, n_depth, max_depth)
    THEN Leaf(n_game, n_depth)
    ELSE LET n_moves == IF maximizing_player
                        THEN get_legal_moves(n_game, Self)
                        ELSE get_legal_moves(n_game, get_opponent(Self))
         IN Close(n_game, n_depth,
                  max_loop(g0, n_game, n_moves, 1, n_depth + 1, max_depth,
                           maximizing_player, Acc(NegInf, 0, {}, 0)))

\* What a search call hands back: a normal return of (score, move), or an
\* exception leaving the call.  t is what the call's self.time_left() returned.
\* log is alphabeta's top-level loop as it went: one entry per child evaluated.
Returned(sc, mv, fc, tr, t, log) ==
    [kind |-> "return", exc |-> "", score |-> sc, move |-> mv, fc |-> fc, tr |-> tr,
     t |-> t, log |-> log]
Raised(exc, t) ==
    [kind |-> "raise", exc |-> exc, score |-> 0, move |-> NO_MOVE, fc |-> 0, tr |-> {},
     t |-> t, log |-> << >>]

\* return(self.score(game, self), game.get_move(game, game.get_legal_moves(self), ...)):
\* the score is computed, then the attribute get_move is looked up on the board.
quick_move(g, t) ==
    LET sc == score(g, Self)
    IN IF "get_move" \in BoardAttributes
       THEN LET ms == get_legal_moves(g, Self)
            IN Returned(sc, IF ms = << >> THEN NO_MOVE ELSE ms[1], 0, {}, t, << >>)
       ELSE Raised("AttributeError", t)

RootAcc(sc, mv, fc, tr) == [best_score |-> sc, best_move |-> mv, fc |-> fc, tr |-> tr]

\* The comparison of minimax's top-level loop with >= and <=: a later move with
\* an equal score takes the place of an earlier one.
root_step_ties(maximizing_player, a, m, r) ==
    LET better == IF maximizing_player
                  THEN r.v >= a.best_score
                  ELSE r.v <= a.best_score
    IN RootAcc(IF better THEN r.v ELSE a.best_score,
               IF better THEN m ELSE a.best_move,
               a.fc + 1 + r.fc, a.tr \cup r.tr)

\* if score > best_score: best_move = m; best_score = score   (maximizing)
\* if score < best_score: best_score = score; best_move = m   (minimizing)
root_step(maximizing_player, a, m, r) ==
    LET better == IF maximizing_player
                  THEN r.v > a.best_score
                  ELSE r.v < a.best_score
    IN RootAcc(IF better THEN r.v ELSE a.best_score,
               IF better THEN m ELSE a.best_move,
               a.fc + 1 + r.fc, a.tr \cup r.tr)

\* score = min_value(game, next_game, 1, depth, ...) at a maximizing root,
\* score = max_value(game, next_game, 1, depth, ...) at a minimizing root
root_child(g, next_game, dep, maximizing_player) ==
    IF maximizing_player
    THEN min_value(g, next_game, 1, dep, maximizing_player)
    ELSE max_value(g, next_game, 1, dep, maximizing_player)

RECURSIVE minimax_loop(_, _, _, _, _, _)
\* for m in num_legal_moves: ... of minimax
minimax_loop(g, num_legal_moves, i, dep, maximizing_player, a) ==
    IF i > Len(num_legal_moves) THEN a
    ELSE minimax_loop(g, num_legal_moves, i + 1, dep, maximizing_player,
             root_step(maximizing_player, a, num_legal_moves[i],
                       root_child(g, forecast_move(g, num_legal_moves[i]), dep,
                                  maximizing_player)))

\* return(best_score, best_move)
minimax_result(a, t) == Returned(a.best_score, a.best_move, a.fc, a.tr, t, << >>)

\* self.minimax(g, dep, maximizing_player), when its self.time_left() call returns t
minimax(g, dep, maximizing_player, t) ==
    IF t < TIMER_THRESHOLD
    THEN quick_move(g, t)
    ELSE minimax_result(
             minimax_loop(g, get_legal_moves(g, g.active), 1, dep, maximizing_player,
                 RootAcc(IF maximizing_player THEN NegInf ELSE PosInf, NO_MOVE, 0, {})),
             t)

----------------------------------------------------------------------------
(* CustomPlayer.alphabeta                                                  *)

RECURSIVE min_value_ab(_, _, _, _, _, _, _)
RECURSIVE max_value_ab(_, _, _, _, _, _, _)
RECURSIVE min_loop_ab(_, _, _, _, _, _, _, _, _, _)
RECURSIVE max_loop_ab(_, _, _, _, _, _, _, _, _, _)
RECURSIVE min_cut_ab(_, _, _, _, _, _, _, _, _, _)
RECURSIVE max_cut_ab(_, _, _, _, _, _, _, _, _, _)

\* for m in n_moves: score = min(score, max_value_ab(...)); <min_cut_ab>
min_loop_ab(g0, n_game, n_moves, i, n_depth, max_depth, alpha, beta, maximizing_player, a) ==
    IF i > Len(n_moves) THEN a
    ELSE min_cut_ab(g0, n_game, n_moves, i, n_depth, max_depth, alpha, beta,
                    maximizing_player,
                    min_step(a, max_value_ab(g0, forecast_move(n_game, n_moves[i]), n_depth,
                                             max_depth, alpha, beta, maximizing_player)))

\* if score <= alpha: return(score);  beta = min(beta, score);  <next m>
min_cut_ab(g0, n_game, n_moves, i, n_depth, max_depth, alpha, beta, maximizing_player, a) ==
    IF a.v <= alpha
    THEN a
    ELSE min_loop_ab(g0, n_game, n_moves, i + 1, n_depth, max_depth,
                     alpha, Min2(beta, a.v), maximizing_player, a)

\* for m in n_moves: score = max(score, min_value_ab(...)); <max_cut_ab>
max_loop_ab(g0, n_game, n_moves, i, n_depth, max_depth, alpha, beta, maximizing_player, a) ==
    IF i > Len(n_moves) THEN a
    ELSE max_cut_ab(g0, n_game, n_moves, i, n_depth, max_depth, alpha, beta,
                    maximizing_player,
                    max_step(a, min_value_ab(g0, forecast_move(n_game, n_moves[i]), n_depth,
                                             max_depth, alpha, beta, maximizing_player)))

\* if score >= beta: return(score);  alpha = max(alpha, score);  <next m>
max_cut_ab(g0, n_game, n_moves, i, n_depth, max_depth, alpha, beta, maximizing_player, a) ==
    IF a.v >= beta
    THEN a
    ELSE max_loop_ab(g0, n_game, n_moves, i + 1, n_depth, max_depth,
                     Max2(alpha, a.v), beta, maximizing_player, a)

\* max_value_ab without n_depth = n_depth + 1.
max_value_ab_same_ply(g0, n_game, n_depth, max_depth, alpha, beta, maximizing_player) ==
    IF TerminalTest(n_game, n_depth, max_depth)
    THEN Leaf(n_game, n_depth)
    ELSE LET n_moves == IF maximizing_player
                        THEN get_legal_moves(n_game, Self)
                        ELSE get_legal_moves(n_game, get_opponent(Self))
         IN Close(n_game, n_depth,
                  max_loop_ab(g0, n_game, n_moves, 1, n_depth, max_depth,
                              alpha, beta, maximizing_player, Acc(NegInf, 0, {}, 0)))

min_value_ab(g0, n_game, n_depth, max_depth, alpha, beta, maximizing_player) ==
    IF TerminalTest(n_game, n_depth, max_depth)
    THEN Leaf(n_game, n_depth)
    ELSE LET n_moves == IF maximizing_player
                        THEN get_legal_moves(n_game, get_opponent(Self))
                        ELSE get_legal_moves(n_game, Self)
         IN Close(n_game, n_depth,
                  min_loop_ab(g0, n_game, n_moves, 1, n_depth + 1, max_depth,
                              alpha, beta, maximizing_player, Acc(PosInf, 0, {}, 0)))

max_value_ab(g0, n_game, n_depth, max_depth, alpha, beta, maximizing_player) ==
    IF TerminalTest(n_game, n_depth, max_depth)
    THEN Leaf(n_game, n_depth)
    ELSE LET n_moves == IF maximizing_player
                        THEN get_legal_moves(n_game, Self)
                        ELSE get_legal_moves(n_game, get_opponent(Self))
         IN Close(n_game, n_depth,
                  max_loop_ab(g0, n_game, n_moves, 1, n_depth + 1, max_depth,
                              alpha, beta, maximizing_player, Acc(NegInf, 0, {}, 0)))

\* One pass of alphabeta's top-level loop, as the log keeps it: the window the
\* child was searched with, the child's score, best_score after the comparison,
\* whether the loop broke, and the window after the pass.
LogEntry(m, alpha, beta, sc, best_score, brk, alpha2, beta2) ==
    [move |-> m, alpha |-> alpha, beta |-> beta, score |-> sc, best_score |-> best_score,
     brk |-> brk, alpha2 |-> alpha2, beta2 |-> beta2]

AbAcc(sc, mv, fc, tr, log) ==
    [best_score |-> sc, best_move |-> mv, fc |-> fc, tr |-> tr, log |-> log]

\* the window after a pass of the top-level loop that did not break
alpha_after(alpha, beta, best_score, maximizing_player) ==
    IF maximizing_player THEN Max2(alpha, best_score) ELSE alpha
beta_after(alpha, beta, best_score, maximizing_player) ==
    IF maximizing_player THEN beta ELSE Min2(alpha, best_score)

\* if best_score >= beta: break   (maximizing)
\* if best_score <= alpha: break  (minimizing)
root_break(alpha, beta, best_score, maximizing_player) ==
    IF maximizing_player THEN best_score >= beta ELSE best_score <= alpha

\* One pass of alphabeta's top-level loop over move m, whose child scored r.
ab_root_step(maximizing_player, alpha, beta, a, m, r) ==
    LET better == IF maximizing_player
                  THEN r.v > a.best_score
                  ELSE r.v < a.best_score
        best_score == IF better THEN r.v ELSE a.best_score
        brk == root_break(alpha, beta, best_score, maximizing_player)
    IN AbAcc(best_score, IF better THEN m ELSE a.best_move,
             a.fc + 1 + r.fc, a.tr \cup r.tr,
             Append(a.log,
                    LogEntry(m, alpha, beta, r.v, best_score, brk,
                             IF brk THEN alpha
                             ELSE alpha_after(alpha, beta, best_score, maximizing_player),
                             IF brk THEN beta
                             ELSE beta_after(alpha, beta, best_score, maximizing_player))))

\* score = min_value_ab(game, next_game, 1, depth, alpha, beta, ...) at a
\* maximizing root, max_value_ab(...) at a minimizing root
ab_root_child(g, next_game, dep, alpha, beta, maximizing_player) ==
    IF maximizing_player
    THEN min_value_ab(g, next_game, 1, dep, alpha, beta, maximizing_player)
    ELSE max_value_ab(g, next_game, 1, dep, alpha, beta, maximizing_player)

RECURSIVE alphabeta_loop(_, _, _, _, _, _, _, _)
RECURSIVE alphabeta_next(_, _, _, _, _, _, _, _)

\* for m in num_legal_moves: ... of alphabeta
alphabeta_loop(g, num_legal_moves, i, dep, alpha, beta, maximizing_player, a) ==
    IF i > Len(num_legal_moves) THEN a
    ELSE alphabeta_next(g, num_legal_moves, i, dep, alpha, beta, maximizing_player,
             ab_root_step(maximizing_player, alpha, beta, a, num_legal_moves[i],
                          ab_root_child(g, forecast_move(g, num_legal_moves[i]), dep,
                                        alpha, beta, maximizing_player)))

\* break, or tighten the window and go on to the next move
alphabeta_next(g, num_legal_moves, i, dep, alpha, beta, maximizing_player, a) ==
    IF root_break(alpha, beta, a.best_score, maximizing_player)
    THEN a
    ELSE alphabeta_loop(g, num_legal_moves, i + 1, dep,
                        alpha_after(alpha, beta, a.best_score, maximizing_player),
                        beta_after(alpha, beta, a.best_score, maximizing_player),
                        maximizing_player, a)

\* return(best_score, best_move)
alphabeta_result(a, t) == Returned(a.best_score, a.best_move, a.fc, a.tr, t, a.log)

\* self.alphabeta(g, dep, alpha, beta, maximizing_player), when its
\* self.time_left() call returns t
alphabeta(g, dep, alpha, beta, maximizing_player, t) ==
    IF t < TIMER_THRESHOLD
    THEN quick_move(g, t)
    ELSE alphabeta_result(
             alphabeta_loop(g, get_legal_moves(g, Self), 1, dep, alpha, beta,
                 maximizing_player,
                 AbAcc(IF maximizing_player THEN alpha ELSE beta, NO_MOVE, 0, {}, << >>)),
             t)

----------------------------------------------------------------------------
(* Inputs.                                                                 *)

\* Boards on which it is self's turn: both players placed on distinct cells,
\* any set of the other cells still blank.
Boards ==
    {[loc |-> [p \in Players |-> IF p = Self THEN s ELSE o], blank |-> b, active |-> Self] :
        <<s, o, b>> \in {t \in Cells \X Cells \X SUBSET Cells :
                            t[1] # t[2] /\ t[1] \notin t[3] /\ t[2] \notin t[3]}}

\* What a clock can report: below the timeout threshold, between the threshold
\* and the loop margin, and at the loop margin.
ClockVals == {TIMER_THRESHOLD - 1, LOOP_MARGIN - 1, LOOP_MARGIN}

\* What the clock stub of a direct search call reports: either side of the
\* entry check.
EntryClockVals == {TIMER_THRESHOLD - 1, TIMER_THRESHOLD}

NoResult == [kind |-> "none", exc |-> "", score |-> 0, move |-> NO_MOVE, fc |-> 0,
             tr |-> {}, t |-> 0, log |-> << >>]
\* best_score and best_move are unbound until a search call has returned
NoBest == [score |-> 0, move |-> NO_MOVE, bound |-> FALSE]
NoCall == [depth |-> 0, kind |-> "none", t |-> 0, score |-> 0, move |-> NO_MOVE]
NoOutcome == [kind |-> "none", exc |-> "", value |-> NO_MOVE]

\* Values of the search_depth parameter.
SearchDepths == 1..DEFAULT_SEARCH_DEPTH
Methods == {"minimax", "alphabeta"}

\* the call passed its entry check and ran its search to the end
Searched(r) == r.kind = "return" /\ r.t >= TIMER_THRESHOLD
\* the call's entry check found the clock below the timeout margin
CutShort(r) == r.kind # "none" /\ r.t < TIMER_THRESHOLD

----------------------------------------------------------------------------
(* The searches called directly, as a test of the agent calls them.        *)

SearchInit ==
    /\ game \in Boards
    /\ legal_moves = get_legal_moves(game, Self)
    /\ score_fn \in ScoreFns
    /\ method = "minimax"
    /\ iterative = FALSE
    /\ search_depth = 1
    /\ now = LOOP_MARGIN
    /\ pc = "idle" /\ d = 1 /\ best = NoBest /\ ncalls = 0
    /\ last = NoCall /\ completed = NoCall /\ outcome = NoOutcome
    /\ depth \in 1..MaxDepth
    /\ maximizing \in BOOLEAN
    /\ mm = NoResult
    /\ ab = NoResult

\* self.minimax(game, depth, maximizing)
CallMinimax ==
    /\ mm.kind = "none"
    /\ \E t \in EntryClockVals :
          /\ now' = t
          /\ mm' = minimax(game, depth, maximizing, t)
    /\ UNCHANGED <<config, driver, depth, maximizing, ab>>

\* self.alphabeta(game, depth, float("-inf"), float("inf"), maximizing)
CallAlphabeta ==
    /\ ab.kind = "none"
    /\ \E t \in EntryClockVals :
          /\ now' = t
          /\ ab' = alphabeta(game, depth, NegInf, PosInf, maximizing, t)
    /\ UNCHANGED <<config, driver, depth, maximizing, mm>>

SearchNext == CallMinimax \/ CallAlphabeta

SearchSpec == SearchInit /\ [][SearchNext]_vars

----------------------------------------------------------------------------
(* CustomPlayer.get_move, step by step: a step ends at each self.time_left() *)
(* call, which is where the clock's next report enters.                      *)

Init ==
    /\ game \in Boards
    /\ legal_moves = get_legal_moves(game, Self)
    /\ score_fn \in ScoreFns
    /\ method \in Methods
    /\ iterative \in BOOLEAN
    /\ search_depth \in SearchDepths
    /\ now = LOOP_MARGIN
    /\ pc = "idle" /\ d = 1 /\ best = NoBest /\ ncalls = 0
    /\ last = NoCall /\ completed = NoCall /\ outcome = NoOutcome
    /\ depth = 1
    /\ maximizing = TRUE
    /\ mm = NoResult
    /\ ab = NoResult

\* self.minimax(game, dep) or self.alphabeta(game, dep), by self.method
search(dep, t) ==
    IF method = "minimax"
    THEN minimax(game, dep, TRUE, t)
    ELSE alphabeta(game, dep, NegInf, PosInf, TRUE, t)

CallRecord(dep, r) ==
    [depth |-> dep, kind |-> r.kind, t |-> r.t, score |-> r.score, move |-> r.move]

\* d = d + 1.  Depths of MaxDepth and more are one value of d.
next_depth(dep) == IF dep < MaxDepth THEN dep + 1 ELSE MaxDepth

\* if best_move in legal_moves: return(best_move)
\* elif not legal_moves: return((-1,-1))
final_return(b, moves) ==
    IF \E i \in DOMAIN moves : moves[i] = b.move
    THEN [kind |-> "return", exc |-> "", value |-> b.move]
    ELSE IF moves = << >>
         THEN [kind |-> "return", exc |-> "", value |-> NO_MOVE]
         ELSE [kind |-> "return_none", exc |-> "", value |-> NO_MOVE]

\* get_move is called: self.time_left = time_left; d = 1
Enter ==
    /\ pc = "idle"
    /\ pc' = "search"
    /\ d' = 1
    /\ UNCHANGED <<config, now, best, ncalls, last, completed, outcome, probe>>

\* What get_move does with the outcome r of a search call: a (score, move)
\* pair is bound to best_score, best_move; an exception that is no
\* TimeoutError leaves get_move.
AfterSearch(r) ==
    /\ ncalls' = IF ncalls < MaxDepth THEN ncalls + 1 ELSE ncalls
    /\ last' = CallRecord(d, r)
    /\ completed' = IF Searched(r) THEN CallRecord(d, r) ELSE completed
    /\ IF r.kind = "return"
       THEN /\ best' = [score |-> r.score, move |-> r.move, bound |-> TRUE]
            /\ pc' = "loop"
            /\ UNCHANGED outcome
       ELSE /\ outcome' = [kind |-> "raise", exc |-> r.exc, value |-> NO_MOVE]
            /\ pc' = "done"
            /\ UNCHANGED best

\* best_score, best_move = self.minimax(game, d)  (or self.alphabeta):
\* the call reads the clock, then searches or takes the quick-move path.
Search ==
    /\ pc = "search"
    /\ \E t \in ClockVals :
          /\ now' = t
          /\ AfterSearch(search(d, t))
    /\ UNCHANGED <<config, d, probe>>

\* while self.time_left() >= 600: if self.iterative: d = d + 1; <search call>
LoopDeepen ==
    /\ pc = "loop"
    /\ iterative
    /\ \E t \in ClockVals : t >= LOOP_MARGIN /\ now' = t
    /\ d' = next_depth(d)
    /\ pc' = "search"
    /\ UNCHANGED <<config, best, ncalls, last, completed, outcome, probe>>

\* while self.time_left() >= 600: if self.iterative: (not taken)
LoopSpin ==
    /\ pc = "loop"
    /\ ~iterative
    /\ \E t \in ClockVals : t >= LOOP_MARGIN /\ now' = t
    /\ UNCHANGED <<config, driver, probe>>

\* the statements after the try block, reached whatever the clock reports
LoopExit_any_clock ==
    /\ pc = "loop"
    /\ \E t \in ClockVals : now' = t
    /\ outcome' = final_return(best, legal_moves)
    /\ pc' = "done"
    /\ UNCHANGED <<config, d, best, ncalls, last, completed, probe>>

\* the while condition fails; the statements after the try block return
LoopExit ==
    /\ pc = "loop"
    /\ \E t \in ClockVals : t < LOOP_MARGIN /\ now' = t
    /\ outcome' = final_return(best, legal_moves)
    /\ pc' = "done"
    /\ UNCHANGED <<config, d, best, ncalls, last, completed, probe>>

Next == Enter \/ Search \/ LoopDeepen \/ LoopSpin \/ LoopExit

Spec == Init /\ [][Next]_vars

\* The interpreter keeps running get_move: a step that can be taken is taken.
FairSpec == Spec /\ WF_vars(Next)

----------------------------------------------------------------------------
(* Claims about the searches.                                              *)

\* C1: alphabeta called with the full window returns the same best score as
\* minimax called on the same state with the same depth and maximizing flag.
C1_SameBestScore ==
    (Searched(mm) /\ Searched(ab)) => ab.score = mm.score

\* C6: a call whose entry check reads the clock below the timeout margin returns
\* at once (evaluation of the current state, a member of self's legal moves),
\* with no forecast_move call and without raising.
QuickReturn(r) ==
    CutShort(r) =>
        /\ r.kind = "return"
        /\ r.score = score(game, Self)
        /\ \E i \in DOMAIN get_legal_moves(game, Self) : r.move = get_legal_moves(game, Self)[i]
        /\ r.fc = 0
C6_QuickReturn == QuickReturn(mm) /\ QuickReturn(ab)

\* C7: one alphabeta call (full window) makes no more forecast_move calls than
\* one minimax call on the same state at the same depth.
C7_NoMoreForecasts ==
    (Searched(mm) /\ Searched(ab)) => ab.fc <= mm.fc

\* alphabeta pruned: it made strictly fewer forecast_move calls than minimax
C7_Witness == Searched(mm) /\ Searched(ab) /\ depth >= 2 /\ ab.fc < mm.fc

IsTerminal(g) == is_winner(g, Self) \/ is_loser(g, Self)

StopsAtLeaves(r) ==
    Searched(r) =>
        \A n \in r.tr :
            /\ n.ply <= depth
            /\ (n.ply = depth \/ IsTerminal(n.g)) => (n.v = score(n.g, Self) /\ n.fc = 0)

\* C9: in both searches, a descendant node whose ply equals the requested depth,
\* or in whose state self has won or lost, takes the value score(state, self) and
\* no forecast_move is called on it; no node lies more than depth plies down.
C9_StopsAtLeaves == StopsAtLeaves(mm) /\ StopsAtLeaves(ab)

\* both searches met a node at the depth limit that had moves left, and a node
\* above the limit where the game was over
C9_Witness ==
    /\ Searched(mm) /\ Searched(ab)
    /\ \A r \in {mm, ab} :
          /\ \E n \in r.tr : n.ply = depth /\ ~IsTerminal(n.g)
          /\ \E n \in r.tr : n.ply < depth /\ IsTerminal(n.g)

SetMax(S) == CHOOSE x \in S : \A y \in S : y <= x
SetMin(S) == CHOOSE x \in S : \A y \in S : x <= y

\* The depth-limited value of a node by the rules of the game: the side to move
\* picks, self the greatest and the opponent the least when self maximizes.
RECURSIVE RefValue(_, _, _, _)
RefValue(g, ply, dep, selfMaximizes) ==
    LET ms == get_legal_moves(g, g.active)
    IN IF ply = dep \/ ms = << >>
       THEN score(g, Self)
       ELSE LET vals == {RefValue(forecast_move(g, ms[i]), ply + 1, dep, selfMaximizes) :
                            i \in DOMAIN ms}
            IN IF (g.active = Self) = selfMaximizes THEN SetMax(vals) ELSE SetMin(vals)

ChildValue(i) == RefValue(forecast_move(game, legal_moves[i]), 1, depth, maximizing)
ChildValues == {ChildValue(i) : i \in DOMAIN legal_moves}
BestChildValue == IF maximizing THEN SetMax(ChildValues) ELSE SetMin(ChildValues)

\* C10: at a root with a legal move, minimax returns the greatest (flag set) or
\* least (flag cleared) of the children's depth-limited values, and the earliest
\* move in enumeration order whose child has that value.
C10_BestAndEarliest ==
    (Searched(mm) /\ legal_moves # << >>) =>
        /\ mm.score = BestChildValue
        /\ \E i \in DOMAIN legal_moves :
              /\ mm.move = legal_moves[i]
              /\ ChildValue(i) = BestChildValue
              /\ \A j \in 1..(i - 1) : ChildValue(j) # BestChildValue

\* two root moves tie for the best value at a minimizing root
C10_Witness ==
    /\ Searched(mm) /\ ~maximizing /\ depth >= 2
    /\ \E i, j \in DOMAIN legal_moves :
          i < j /\ ChildValue(i) = BestChildValue /\ ChildValue(j) = BestChildValue

\* the smallest child score among the first i passes of the top-level loop
SmallestScore(log, i) == SetMin({log[j].score : j \in 1..i})

\* the pass tightened the window in the direction of the root's role
Tightened(e, maximizing_player) ==
    IF maximizing_player
    THEN e.alpha2 = Max2(e.alpha, e.best_score) /\ e.beta2 = e.beta
    ELSE e.beta2 = Min2(e.beta, e.best_score) /\ e.alpha2 = e.alpha

\* C11: in alphabeta's top-level loop, each pass that does not break tightens
\* the window by the root's role (maximizing: alpha = max(alpha, best_score),
\* beta unchanged; minimizing: beta = min(beta, best_score), alpha unchanged);
\* over the loop alpha never decreases, beta never increases, and beta is never
\* below the smallest child score seen so far.
C11_WindowTightened ==
    Searched(ab) =>
        \A i \in DOMAIN ab.log :
            /\ ~ab.log[i].brk => Tightened(ab.log[i], maximizing)
            /\ ab.log[i].alpha2 >= ab.log[i].alpha
            /\ ab.log[i].beta2 <= ab.log[i].beta
            /\ ab.log[i].beta2 >= SmallestScore(ab.log, i)
            /\ i > 1 => /\ ab.log[i].alpha = ab.log[i - 1].alpha2
                        /\ ab.log[i].beta = ab.log[i - 1].beta2

----------------------------------------------------------------------------
(* Claims about get_move.                                                  *)

IsLegal(m) == \E i \in DOMAIN legal_moves : legal_moves[i] = m

\* C2: every call of get_move ends by returning a member of the supplied
\* legal_moves or the sentinel (-1,-1); it never raises and never returns
\* without a move.
C2_ReturnsAMove ==
    pc = "done" =>
        /\ outcome.kind = "return"
        /\ (IsLegal(outcome.value) \/ outcome.value = NO_MOVE)

\* C3: when the supplied legal-moves set is empty, get_move returns (-1,-1).
C3_NoMovesSentinel ==
    (pc = "done" /\ legal_moves = << >>) =>
        (outcome.kind = "return" /\ outcome.value = NO_MOVE)

\* C4: with iterative deepening, once a search call has run to completion, a
\* later call cut short by the clock does not replace the retained result:
\* get_move returns the move of the last completed call.
C4_KeepsCompleted ==
    (iterative /\ completed.kind = "return" /\ CutShort(last)) =>
        /\ best.move = completed.move
        /\ pc = "done" => (outcome.kind = "return" /\ outcome.value = completed.move)

\* C5: with the iterative flag disabled, get_move makes exactly one search
\* call, at depth search_depth, and returns that call's move.
C5_OneCallAtSearchDepth ==
    ~iterative =>
        /\ ncalls <= 1
        /\ Searched(last) => last.depth = search_depth
        /\ (pc = "done" /\ outcome.kind = "return") =>
              (ncalls = 1 /\ outcome.value = last.move)

\* the move of one fixed-depth search at depth search_depth on the same state
FixedDepthMove == search(search_depth, LOOP_MARGIN).move

\* C8: with a clock that never runs low and depth cap search_depth, get_move
\* with iterative deepening returns, and returns the move of a single
\* fixed-depth search at that depth.
C8_DeepeningReturnsFixedDepth ==
    (iterative /\ [](now >= LOOP_MARGIN)) =>
        <>(pc = "done" /\ outcome.kind = "return" /\ outcome.value = FixedDepthMove)

\* get_move of a player constructed with the default score_fn and search_depth
ClockInit ==
    /\ game \in Boards
    /\ legal_moves = get_legal_moves(game, Self)
    /\ score_fn = "custom_score"
    /\ method \in Methods
    /\ iterative \in BOOLEAN
    /\ search_depth = DEFAULT_SEARCH_DEPTH
    /\ now = LOOP_MARGIN
    /\ pc = "idle" /\ d = 1 /\ best = NoBest /\ ncalls = 0
    /\ last = NoCall /\ completed = NoCall /\ outcome = NoOutcome
    /\ depth = 1
    /\ maximizing = TRUE
    /\ mm = NoResult
    /\ ab = NoResult

ClockSpec == ClockInit /\ [][Next]_vars /\ WF_vars(Next)

\* get_move has returned (with a move or without one)
HasReturned == pc = "done" /\ outcome.kind # "raise"

\* get_move returns only on a clock reading below the loop margin, and without
\* iterative deepening it makes no search call after its first
ReturnsOnLowClock ==
    /\ HasReturned => (now < LOOP_MARGIN /\ Searched(completed))
    /\ ~iterative => ncalls <= 1

\* C12: once its first search call has passed the entry check, get_move returns
\* only after a clock reading below 600 ms; it ends on every run whose clock
\* from some point on reports below 600 ms; without iterative deepening it
\* makes no search call after the first and still waits for such a reading;
\* and while the clock never reports below 600 ms get_move never returns.
C12_ReturnsOnlyOnLowClock ==
    /\ []ReturnsOnLowClock
    /\ <>[](now < LOOP_MARGIN) => <>(pc = "done")
    /\ [](now >= LOOP_MARGIN) => [](pc # "done")

\* without iterative deepening, the one search call read the clock at or above
\* 600 ms and get_move returned its move on a later reading below 600 ms
C12_Witness ==
    /\ HasReturned /\ ~iterative /\ ncalls = 1
    /\ last.t >= LOOP_MARGIN /\ now < LOOP_MARGIN
    /\ outcome.value = last.move /\ IsLegal(outcome.value)

====
